---- MODULE Spec2Model ----
(***************************************************************************)
(* Live Sports Auction API (src/main.py, src/schemas.py).                  *)
(*                                                                         *)
(* The store holds two collections, "auction" and "bid".  The handlers     *)
(* create_auction, list_auctions, get_auction and place_bid run            *)
(* concurrently; every store call of a handler is one atomic step and the  *)
(* wall clock may advance between any two steps.  Timestamps are integers  *)
(* and amounts are finite non-negative integers (NaN and infinities of     *)
(* the float type are outside the model).                                  *)
(***************************************************************************)
EXTENDS Integers, Sequences, FiniteSets, TLC

\* ------------------------------------------------------------------ bounds
MaxTime == 2          \* the clock and the window bounds range over 0..MaxTime
MaxStart == 1         \* starting_price ranges over 0..MaxStart
MaxAmount == 2        \* bid amounts range over 0..MaxAmount
MaxAuctions == 1      \* at most this many create_auction calls
MaxRequests == 2      \* at most this many place_bid requests
MaxSeqAmount == 3     \* amounts of bids issued one after another: 0..MaxSeqAmount

\* ----------------------------------------------------- program constants
DefaultLimit == 20    \* list_auctions(limit: int = 20)
TopLimit == 10        \* get_auction: .limit(10)

Times == 0..MaxTime
Amounts == 0..MaxAmount
StartPrices == 0..MaxStart
Requests == 1..MaxRequests
SeqAmounts == 0..MaxSeqAmount

Unset == -1           \* a field whose value is None (null in the store)
Absent == -2          \* a key that a document does not have

VARIABLES
    clock,      \* datetime.now(timezone.utc)
    auction,    \* db["auction"], in insertion order; _id is the position
    bid,        \* db["bid"], in insertion order
    req,        \* the place_bid requests
    last_ok,    \* per auction, the request that was last answered with success
    view        \* the read (list_auctions or get_auction) in progress or last
                \* answered; at is the time of a get_auction's find_one

vars == <<clock, auction, bid, req, last_ok, view>>

\* ---------------------------------------------------------- identifiers
\* An id travels as a string.  ObjectId(s) accepts 24 hex digits in either
\* case and str(ObjectId) prints them in lower case; any other string is
\* rejected by ObjectId with InvalidId.
HexId(n, up) == [kind |-> "hex", oid |-> n, upper |-> up]
BadId == [kind |-> "bad", oid |-> 0, upper |-> FALSE]
IdStrings == {HexId(n, up) : n \in 1..MaxAuctions, up \in BOOLEAN} \cup {BadId}

IsValidObjectId(s) == s.kind = "hex"
ObjectId(s) == s.oid
Str(oid) == HexId(oid, FALSE)

\* ------------------------------------------------------------ documents
NoDoc == [oid |-> 0, starting_price |-> 0, current_price |-> Unset,
          start_time |-> 0, end_time |-> 0, status |-> "",
          updated_at |-> Unset]

\* db["auction"].find_one({"_id": oid})
FindOne(oid) == IF oid \in 1..Len(auction) THEN auction[oid] ELSE NoDoc

\* ---------------------------------------------------------- create_auction
\* a create_auction that treats now == end_time as past the window
CreateStatus_EndExclusive(now, start_time, end_time) ==
    IF start_time <= now /\ now < end_time THEN "live"
    ELSE IF now >= end_time THEN "ended"
    ELSE "scheduled"

CreateStatus(now, start_time, end_time) ==
    IF start_time <= now /\ now <= end_time THEN "live"
    ELSE IF now > end_time THEN "ended"
    ELSE "scheduled"

\* a create_auction that does not copy the starting price
AuctionSchema_ZeroPrice(starting_price, start_time, end_time, status) ==
    [oid |-> Len(auction) + 1,
     starting_price |-> starting_price,
     current_price |-> 0,
     start_time |-> start_time,
     end_time |-> end_time,
     status |-> status,
     updated_at |-> Unset]

AuctionSchema(starting_price, start_time, end_time, status) ==
    [oid |-> Len(auction) + 1,
     starting_price |-> starting_price,
     current_price |-> starting_price,
     start_time |-> start_time,
     end_time |-> end_time,
     status |-> status,
     updated_at |-> Unset]

create_document(data) == Append(auction, data)

CreateAuction(starting_price, start_time, end_time) ==
    /\ Len(auction) < MaxAuctions
    /\ LET now == clock
           status == CreateStatus(now, start_time, end_time)
       IN auction' = create_document(
              AuctionSchema(starting_price, start_time, end_time, status))
    /\ UNCHANGED <<clock, bid, req, last_ok, view>>

\* A document of the auction collection as schemas.Auction describes it when
\* no current price is given: current_price is None (the field's default) or
\* the key is missing, status is the default "scheduled".
StoreAuction(starting_price, start_time, end_time, current_price) ==
    /\ Len(auction) < MaxAuctions
    /\ current_price \in {Unset, Absent}
    /\ auction' = Append(auction,
                         [AuctionSchema(starting_price, start_time, end_time,
                                        "scheduled")
                             EXCEPT !.current_price = current_price])
    /\ UNCHANGED <<clock, bid, req, last_ok, view>>

\* --------------------------------------------------------------- place_bid
\* A request slot: the arguments, the handler's locals while it runs and the
\* response once it has returned (the locals die with the call).
IdleReq == [pc |-> "idle", auction_id |-> BadId, amount |-> 0,
            auction |-> NoDoc, now |-> Unset, inserted_id |-> 0,
            code |-> 0, detail |-> "", current_price |-> Unset]

\* a live check that excludes now == start_time
IsLive_StartExclusive(start_time, now, end_time) == start_time < now /\ now <= end_time

\* a live check that forgets the end of the window
IsLive_NoEnd(start_time, now, end_time) == start_time <= now

IsLive(start_time, now, end_time) == start_time <= now /\ now <= end_time

\* a price read that ignores the bids accepted so far
ReadCurrentPrice_Starting(doc) == doc.starting_price

\* auction.get("current_price", auction.get("starting_price", 0)): the default
\* is taken when the key is missing, a stored None is returned as it is
ReadCurrentPrice(doc) ==
    IF doc.current_price = Absent THEN doc.starting_price ELSE doc.current_price

\* an amount check that lets an equal bid pass
AmountTooLow_Strict(amount, current_price) == amount < current_price

AmountTooLow(amount, current_price) == amount <= current_price

\* a price write that stamps the time of the write
SetPrice_FreshNow(doc, amount, now) ==
    [doc EXCEPT !.current_price = amount, !.updated_at = clock]

\* a price write that never lowers the stored price
SetPrice_KeepHigher(doc, amount, now) ==
    IF amount > doc.current_price
    THEN [doc EXCEPT !.current_price = amount, !.updated_at = now]
    ELSE doc

SetPrice(doc, amount, now) ==
    [doc EXCEPT !.current_price = amount, !.updated_at = now]

\* db["auction"].update_one({"_id": oid}, {"$set": {...}})
UpdateOne(oid, amount, now) ==
    IF oid \in 1..Len(auction)
    THEN [auction EXCEPT ![oid] = SetPrice(auction[oid], amount, now)]
    ELSE auction

\* raise HTTPException(status_code, detail) / an unhandled exception (500)
Raise(q, status_code, detail) ==
    [q EXCEPT !.pc = "done", !.code = status_code, !.detail = detail,
              !.auction = NoDoc, !.now = Unset]

\* return {"id": str(inserted_id), "current_price": float(payload.amount)}
Return(q) ==
    [q EXCEPT !.pc = "done", !.code = 200, !.detail = "ok",
              !.current_price = q.amount,
              !.auction = NoDoc, !.now = Unset]

\* line 113-115: ObjectId(auction_id), find_one, 404 when absent
FindAuction(r, auction_id, amount) ==
    /\ LET q == [IdleReq EXCEPT !.auction_id = auction_id, !.amount = amount]
       IN IF ~IsValidObjectId(auction_id)
          THEN req' = [req EXCEPT ![r] = Raise(q, 500, "InvalidId")]
          ELSE LET doc == FindOne(ObjectId(auction_id))
               IN IF doc = NoDoc
                  THEN req' = [req EXCEPT ![r] = Raise(q, 404, "Auction not found")]
                  ELSE req' = [req EXCEPT ![r] =
                                 [q EXCEPT !.pc = "check", !.auction = doc]]
    /\ UNCHANGED <<clock, auction, bid, last_ok, view>>

\* a request arrives while others may be running
PlaceBidFind(r, auction_id, amount) ==
    /\ req[r].pc = "idle"
    /\ \A q \in Requests : q < r => req[q].pc # "idle"   \* slots are taken in order
    /\ FindAuction(r, auction_id, amount)

\* a request arrives after every earlier one has returned; the slot of a
\* returned request may serve again
PlaceBidFindSeq(r, auction_id, amount) ==
    /\ \A q \in Requests : req[q].pc \in {"idle", "done"}
    /\ \A q \in Requests : q < r => req[q].pc # "idle"
    /\ FindAuction(r, auction_id, amount)

\* a place_bid that checks the amount before the window
PlaceBidCheck_AmountFirst(r) ==
    /\ req[r].pc = "check"
    /\ LET now == clock
           a == req[r].auction
           current_price == ReadCurrentPrice(a)
       IN IF AmountTooLow(req[r].amount, current_price)
          THEN req' = [req EXCEPT ![r] =
                          Raise(@, 400, "Bid must be higher than current price")]
          ELSE IF ~IsLive(a.start_time, now, a.end_time)
          THEN req' = [req EXCEPT ![r] = Raise(@, 400, "Auction is not live")]
          ELSE req' = [req EXCEPT ![r].pc = "insert", ![r].now = now]
    /\ UNCHANGED <<clock, auction, bid, last_ok, view>>

\* line 117-123: the `now` snapshot, the live check and the amount check
PlaceBidCheck(r) ==
    /\ req[r].pc = "check"
    /\ LET now == clock
           a == req[r].auction
           current_price == ReadCurrentPrice(a)
       IN IF ~IsLive(a.start_time, now, a.end_time)
          THEN req' = [req EXCEPT ![r] = Raise(@, 400, "Auction is not live")]
          ELSE IF current_price = Unset       \* float(None) raises TypeError
          THEN req' = [req EXCEPT ![r] = Raise(@, 500, "TypeError")]
          ELSE IF AmountTooLow(req[r].amount, current_price)
          THEN req' = [req EXCEPT ![r] =
                          Raise(@, 400, "Bid must be higher than current price")]
          ELSE req' = [req EXCEPT ![r].pc = "insert", ![r].now = now]
    /\ UNCHANGED <<clock, auction, bid, last_ok, view>>

\* line 126-132
PlaceBidInsert(r) ==
    /\ req[r].pc = "insert"
    /\ LET inserted_id == Len(bid) + 1
           bid_doc == [id |-> inserted_id,
                       auction_id |-> req[r].auction_id,
                       amount |-> req[r].amount,
                       created_at |-> req[r].now]
       IN /\ bid' = Append(bid, bid_doc)
          /\ req' = [req EXCEPT ![r].pc = "update", ![r].inserted_id = inserted_id]
    /\ UNCHANGED <<clock, auction, last_ok, view>>

\* line 135-137
PlaceBidUpdate(r) ==
    /\ req[r].pc = "update"
    /\ auction' = UpdateOne(ObjectId(req[r].auction_id), req[r].amount, req[r].now)
    /\ req' = [req EXCEPT ![r] = Return(@)]
    /\ last_ok' = [last_ok EXCEPT ![ObjectId(req[r].auction_id)] = r]
    /\ UNCHANGED <<clock, bid, view>>

\* ----------------------------------------------------------- list_auctions
\* One reader slot holds the read in progress and then its response.
NoView == [op |-> "none", pc |-> "done", code |-> 0, arg |-> BadId,
           filter |-> "", docs |-> <<>>, items |-> <<>>, top_bids |-> <<>>,
           at |-> Unset]

StatusArgs == {"", "scheduled", "live", "ended"}   \* "" stands for no filter
\* a limit below the default cuts the list once there are two auctions
Limits == {DefaultLimit} \cup {l \in {1} : MaxAuctions > 1}

Min(a, b) == IF a <= b THEN a ELSE b

\* get_documents("auction", filter_dict, limit)
get_documents(filter, limit) ==
    LET hits == SelectSeq(auction, LAMBDA a : filter = "" \/ a.status = filter)
    IN SubSeq(hits, 1, Min(limit, Len(hits)))

\* a loop body that counts now == end_time as ended
Decorate_EndedAtEnd(a, now) ==
    [doc |-> a, id |-> Str(a.oid), now |-> now,
     is_live |-> (a.start_time <= now /\ now <= a.end_time),
     has_ended |-> (now >= a.end_time)]

\* line 50-53: one item of the loop
Decorate(a, now) ==
    [doc |-> a, id |-> Str(a.oid), now |-> now,
     is_live |-> (a.start_time <= now /\ now <= a.end_time),
     has_ended |-> (now > a.end_time)]

\* line 44-47
ListAuctionsFetch(status, limit) ==
    /\ view.pc = "done"
    /\ LET docs == get_documents(status, limit)
       IN view' = [NoView EXCEPT !.op = "list", !.filter = status, !.docs = docs,
                                 !.pc = IF docs = <<>> THEN "done" ELSE "decorate",
                                 !.code = IF docs = <<>> THEN 200 ELSE 0,
                                 !.at = IF docs = <<>> THEN clock ELSE Unset]
    /\ UNCHANGED <<clock, auction, bid, req, last_ok>>

\* line 49-54: the next item of the loop, with its own `now`
ListAuctionsItem ==
    /\ view.op = "list" /\ view.pc = "decorate"
    /\ LET k == Len(view.items) + 1
           items == Append(view.items, Decorate(view.docs[k], clock))
           last == k = Len(view.docs)
       IN view' = [view EXCEPT !.items = items,
                               !.pc = IF last THEN "done" ELSE "decorate",
                               !.code = IF last THEN 200 ELSE 0,
                               !.at = IF last THEN clock ELSE Unset]
    /\ UNCHANGED <<clock, auction, bid, req, last_ok>>

\* ------------------------------------------------------------- get_auction
\* db["bid"].find({"auction_id": auction_id}): the stored string is compared
FindBids(auction_id) == SelectSeq(bid, LAMBDA b : b.auction_id = auction_id)

\* .sort("amount", -1): every order of the hits with non-increasing amounts
\* (the store leaves the order of equal amounts open)
SortDesc(hits) ==
    LET n == Len(hits)
        perms == {f \in [1..n -> 1..n] : \A i, j \in 1..n : i # j => f[i] # f[j]}
    IN {[i \in 1..n |-> hits[f[i]]] : f \in
           {g \in perms : \A i \in 1..n, j \in 1..n :
                              i < j => hits[g[i]].amount >= hits[g[j]].amount}}

\* .limit(10)
Limit(s, n) == SubSeq(s, 1, Min(n, Len(s)))

\* line 90-96
GetAuctionFind(auction_id) ==
    /\ view.pc = "done"
    /\ LET v == [NoView EXCEPT !.op = "get", !.arg = auction_id, !.at = clock]
       IN IF ~IsValidObjectId(auction_id)
          THEN view' = [v EXCEPT !.code = 400]
          ELSE LET doc == FindOne(ObjectId(auction_id))
               IN IF doc = NoDoc
                  THEN view' = [v EXCEPT !.code = 404]
                  ELSE view' = [v EXCEPT !.pc = "bids", !.docs = <<doc>>]
    /\ UNCHANGED <<clock, auction, bid, req, last_ok>>

\* line 98-105
GetAuctionBids ==
    /\ view.op = "get" /\ view.pc = "bids"
    /\ \E bids \in SortDesc(FindBids(view.arg)) :
          view' = [view EXCEPT !.pc = "done", !.code = 200,
                               !.top_bids = Limit(bids, TopLimit)]
    /\ UNCHANGED <<clock, auction, bid, req, last_ok>>

\* ------------------------------------------------------------------ clock
Tick ==
    /\ clock < MaxTime
    /\ clock' = clock + 1
    /\ UNCHANGED <<auction, bid, req, last_ok, view>>

\* ------------------------------------------------------------------- Init
Init ==
    /\ clock = 0
    /\ auction = <<>>
    /\ bid = <<>>
    /\ req = [r \in Requests |-> IdleReq]
    /\ last_ok = [i \in 1..MaxAuctions |-> 0]
    /\ view = NoView

Next ==
    \/ \E sp \in StartPrices, s \in Times, e \in Times : CreateAuction(sp, s, e)
    \/ \E r \in Requests, id \in IdStrings, am \in Amounts : PlaceBidFind(r, id, am)
    \/ \E r \in Requests : PlaceBidCheck(r)
    \/ \E r \in Requests : PlaceBidInsert(r)
    \/ \E r \in Requests : PlaceBidUpdate(r)
    \/ \E st \in StatusArgs, lim \in Limits : ListAuctionsFetch(st, lim)
    \/ ListAuctionsItem
    \/ \E id \in IdStrings : GetAuctionFind(id)
    \/ GetAuctionBids
    \/ Tick

Spec == Init /\ [][Next]_vars

\* The bidding protocol alone: the reads change nothing in the store.
NextBid ==
    \/ \E sp \in StartPrices, s \in Times, e \in Times : CreateAuction(sp, s, e)
    \/ \E r \in Requests, id \in IdStrings, am \in Amounts : PlaceBidFind(r, id, am)
    \/ \E r \in Requests : PlaceBidCheck(r)
    \/ \E r \in Requests : PlaceBidInsert(r)
    \/ \E r \in Requests : PlaceBidUpdate(r)
    \/ Tick

SpecBid == Init /\ [][NextBid]_vars

\* The reads alone, over auctions whose clock advances after creation.
NextRead ==
    \/ \E sp \in StartPrices, s \in Times, e \in Times : CreateAuction(sp, s, e)
    \/ \E st \in StatusArgs, lim \in Limits : ListAuctionsFetch(st, lim)
    \/ ListAuctionsItem
    \/ \E id \in IdStrings : GetAuctionFind(id)
    \/ GetAuctionBids
    \/ Tick

SpecRead == Init /\ [][NextRead]_vars

\* Bids issued one after another, with the id as create_auction returned it:
\* no two place_bid requests overlap.
NextSeq ==
    \/ \E sp \in StartPrices, s \in Times, e \in Times : CreateAuction(sp, s, e)
    \/ \E r \in Requests, i \in 1..MaxAuctions, am \in SeqAmounts :
           PlaceBidFindSeq(r, Str(i), am)
    \/ \E r \in Requests : PlaceBidCheck(r)
    \/ \E r \in Requests : PlaceBidInsert(r)
    \/ \E r \in Requests : PlaceBidUpdate(r)
    \/ Tick

SpecSeq == Init /\ [][NextSeq]_vars

\* The bidding protocol over auction documents that carry no current price.
NextUnset ==
    \/ \E sp \in StartPrices, s \in Times, e \in Times, cp \in {Unset, Absent} :
           StoreAuction(sp, s, e, cp)
    \/ \E r \in Requests, id \in IdStrings, am \in Amounts : PlaceBidFind(r, id, am)
    \/ \E r \in Requests : PlaceBidCheck(r)
    \/ \E r \in Requests : PlaceBidInsert(r)
    \/ \E r \in Requests : PlaceBidUpdate(r)
    \/ Tick

SpecUnset == Init /\ [][NextUnset]_vars

\* The bidding protocol with get_auction reading next to it.
NextGet ==
    \/ \E sp \in StartPrices, s \in Times, e \in Times : CreateAuction(sp, s, e)
    \/ \E r \in Requests, id \in IdStrings, am \in Amounts : PlaceBidFind(r, id, am)
    \/ \E r \in Requests : PlaceBidCheck(r)
    \/ \E r \in Requests : PlaceBidInsert(r)
    \/ \E r \in Requests : PlaceBidUpdate(r)
    \/ \E id \in IdStrings : GetAuctionFind(id)
    \/ GetAuctionBids
    \/ Tick

SpecGet == Init /\ [][NextGet]_vars

\* ================================================================ claims
InFlight(r) == req[r].pc \notin {"idle", "done"}
Accepted(r) == req[r].pc = "done" /\ req[r].code = 200
OnAuction(r, i) == IsValidObjectId(req[r].auction_id) /\ ObjectId(req[r].auction_id) = i
Stored(r) == FindOne(ObjectId(req[r].auction_id))
WritesPrice(r) == req[r].pc = "update" /\ req'[r].pc = "done"
LeavesCheck(r) == req[r].pc = "check" /\ req'[r].pc # "check"
InvalidBid(q) == q.pc = "done" /\ q.code = 400
                 /\ q.detail = "Bid must be higher than current price"
InvalidState(q) == q.pc = "done" /\ q.code = 400 /\ q.detail = "Auction is not live"
MaxOf(S) == CHOOSE x \in S : \A y \in S : y <= x

\* C1: in every step of every interleaving of place_bid requests the stored
\* current_price of every auction is at least what it was before the step.
C1_PriceNeverDecreases ==
    [][\A i \in 1..Len(auction) :
          auction'[i].current_price >= auction[i].current_price]_vars

\* C2: once every place_bid request has completed, the stored current_price of
\* each auction is the largest amount among the requests on it that were
\* answered with success, or the starting price when none was.
C2_FinalPriceIsMaxAccepted ==
    (\A r \in Requests : ~InFlight(r)) =>
        \A i \in 1..Len(auction) :
            auction[i].current_price =
                MaxOf({auction[i].starting_price} \cup
                      {req[r].amount : r \in {q \in Requests :
                                                 Accepted(q) /\ OnAuction(q, i)}})

\* C3: a request is answered with success only if its amount is strictly
\* greater than the stored current_price at the step that applies its price
\* write (an overtaken bid is not answered with success).
C3_AcceptedExceedsStoredPrice ==
    [][\A r \in Requests :
          (WritesPrice(r) /\ req'[r].code = 200) =>
              req[r].amount > Stored(r).current_price]_vars

\* C4: the price write changes the auction only if the stored current_price
\* still equals the current_price the request read.
C4_WriteIsCompareAndSet ==
    [][\A r \in Requests :
          (WritesPrice(r) /\ auction' # auction) =>
              Stored(r).current_price = req[r].auction.current_price]_vars

\* C5: on a live auction an amount equal to or lower than the current price
\* the request read is rejected with InvalidBid (400), and only a strictly
\* greater amount passes the amount check.
C5_EqualOrLowerRejected ==
    [][\A r \in Requests :
          (LeavesCheck(r)
             /\ req[r].auction.start_time <= clock
             /\ clock <= req[r].auction.end_time) =>
              /\ (req[r].amount <= req[r].auction.current_price) => InvalidBid(req'[r])
              /\ (req[r].amount > req[r].auction.current_price) => req'[r].pc = "insert"]_vars

\* C5 witness: a bid equal to the price it read on a live auction was rejected
\* with InvalidBid.
C5_Witness ==
    \E r \in Requests :
        /\ InvalidBid(req[r])
        /\ Stored(r) # NoDoc
        /\ req[r].amount = Stored(r).starting_price
        /\ req[r].amount = Stored(r).current_price
        /\ req[r].amount > 0

\* C6: the request passes the live check exactly when its `now` snapshot lies
\* in [start_time, end_time], both ends included; outside it is rejected with
\* InvalidState (400) whatever the amount.
C6_LiveCheckInclusive ==
    [][\A r \in Requests :
          LeavesCheck(r) =>
              ((req[r].auction.start_time <= clock /\ clock <= req[r].auction.end_time)
                  <=> ~InvalidState(req'[r]))]_vars

\* C6 witness: a bid above the current price was rejected as not live while
\* another request passed the live check on a boundary of the window.
C6_Witness ==
    /\ \E r \in Requests :
          /\ InvalidState(req[r])
          /\ Stored(r) # NoDoc
          /\ req[r].amount = MaxAmount
          /\ req[r].amount > Stored(r).current_price
    /\ \E r \in Requests :
          /\ req[r].pc = "insert"
          /\ req[r].now \in {req[r].auction.start_time, req[r].auction.end_time}

\* C7: a completed place_bid on a malformed id, or on an id absent from the
\* store, was answered with NotFound (404) and left no bid record.
C7_MissingOrMalformedIsNotFound ==
    \A r \in Requests :
        (req[r].pc = "done" /\ (~IsValidObjectId(req[r].auction_id) \/ Stored(r) = NoDoc)) =>
            /\ req[r].code = 404
            /\ \A k \in 1..Len(bid) : bid[k].auction_id # req[r].auction_id

\* A create_auction step, and the auction it inserted.
Creates == Len(auction') = Len(auction) + 1
Created == auction'[Len(auction')]

\* C8 as stated: the status computed by create_auction is scheduled iff
\* now < start_time, live iff start_time <= now <= end_time, ended iff
\* now > end_time, for every triple.
C8_StatusRulesAsStated ==
    [][Creates =>
          /\ Created.status \in {"scheduled", "live", "ended"}
          /\ (Created.status = "scheduled") <=> (clock < Created.start_time)
          /\ (Created.status = "live") <=>
                 (Created.start_time <= clock /\ clock <= Created.end_time)
          /\ (Created.status = "ended") <=> (clock > Created.end_time)]_vars

\* C8 amended: the status computed by create_auction is exactly one of the
\* three, live iff start_time <= now <= end_time, ended iff now > end_time,
\* and scheduled iff now < start_time and now <= end_time.
C8_StatusRules ==
    [][Creates =>
          /\ Created.status \in {"scheduled", "live", "ended"}
          /\ (Created.status = "scheduled") <=>
                 (clock < Created.start_time /\ clock <= Created.end_time)
          /\ (Created.status = "live") <=>
                 (Created.start_time <= clock /\ clock <= Created.end_time)
          /\ (Created.status = "ended") <=> (clock > Created.end_time)]_vars

\* C8 witness: an auction whose window is inverted was created before its
\* start_time and after its end_time, and got the status ended.
C8_Witness ==
    \E i \in 1..Len(auction) :
        /\ auction[i].end_time < auction[i].start_time
        /\ clock < auction[i].start_time
        /\ auction[i].status = "ended"

\* The Clock Policy: status is the lifecycle status of the window at now.
PolicyStatus(status, now, start_time, end_time) ==
    \/ status = "scheduled" /\ now < start_time
    \/ status = "live" /\ start_time <= now /\ now <= end_time
    \/ status = "ended" /\ now > end_time

\* C9: the status of the auction that get_auction fetched, and of every item
\* of a list_auctions response, is the Clock Policy status for the time of
\* the read, and every auction that list_auctions selects with the filter
\* "live" has is_live true.
C9_StatusDerivedOnRead ==
    /\ (view.op = "get" /\ view.docs # <<>>) =>
           PolicyStatus(view.docs[1].status, view.at,
                        view.docs[1].start_time, view.docs[1].end_time)
    /\ (view.op = "list") =>
           \A k \in 1..Len(view.items) :
               /\ PolicyStatus(view.items[k].doc.status, view.items[k].now,
                               view.items[k].doc.start_time, view.items[k].doc.end_time)
               /\ view.filter = "live" => view.items[k].is_live

BidsOf(i) == {k \in 1..Len(bid) : IsValidObjectId(bid[k].auction_id)
                                    /\ ObjectId(bid[k].auction_id) = i}

\* C11: when bids are issued one after another on a live auction, a bid above
\* the stored current_price is answered with success and becomes the stored
\* price, any other bid is answered with InvalidBid (400) and leaves the price
\* as it was; so between requests the stored price is the largest of the
\* starting price and the amounts that exceeded the price at their submission
\* (100, then 150, 120, 200 gives 150, rejected at 150, 200).
C11_SequentialBids ==
    [][/\ \A r \in Requests :
            /\ (LeavesCheck(r)
                  /\ req[r].auction.start_time <= clock
                  /\ clock <= req[r].auction.end_time) =>
                   IF req[r].amount > Stored(r).current_price
                   THEN req'[r].pc = "insert"
                   ELSE InvalidBid(req'[r]) /\ auction' = auction /\ bid' = bid
            /\ WritesPrice(r) =>
                   /\ req'[r].code = 200
                   /\ req'[r].current_price = req[r].amount
                   /\ req[r].amount > Stored(r).current_price
                   /\ auction'[ObjectId(req[r].auction_id)].current_price = req[r].amount
       /\ (\A r \in Requests : req'[r].pc \in {"idle", "done"}) =>
              \A i \in 1..Len(auction') :
                  auction'[i].current_price =
                      MaxOf({auction'[i].starting_price} \cup
                            {bid'[k].amount : k \in
                                {j \in 1..Len(bid') :
                                    ObjectId(bid'[j].auction_id) = i}})]_vars

\* C11 witness: on an auction that started at 0 the bids 2, 1, 3 (for 100 and
\* 150, 120, 200) were issued in this order: 2 and 3 are recorded, 1 was
\* rejected with InvalidBid, the last answer is success with current_price 3.
C11_Witness ==
    \E i \in 1..Len(auction), r, q \in Requests :
        /\ auction[i].starting_price = 0
        /\ auction[i].current_price = 3
        /\ Len(bid) = 2 /\ bid[1].amount = 2 /\ bid[2].amount = 3
        /\ BidsOf(i) = {1, 2}
        /\ OnAuction(r, i) /\ InvalidBid(req[r]) /\ req[r].amount = 1
        /\ OnAuction(q, i) /\ Accepted(q) /\ req[q].amount = 3
        /\ req[q].current_price = 3 /\ req[q].inserted_id = 2

\* The bids of auction i by amount descending, equal amounts by earliest
\* insertion first, cut to the first n.
Before(j, k) == bid[j].amount > bid[k].amount
                \/ (bid[j].amount = bid[k].amount /\ j < k)
TopOf(i, n) ==
    LET S == BidsOf(i)
        m == IF Cardinality(S) <= n THEN Cardinality(S) ELSE n
    IN [p \in 1..m |->
           bid[CHOOSE k \in S : Cardinality({j \in S : Before(j, k)}) = p - 1]]

\* C12: the top_bids that get_auction returns are the bids of the requested
\* auction, at most 10 of them, highest amounts first, equal amounts in
\* insertion order.
C12_TopBids ==
    [][(view.op = "get" /\ view.pc = "bids" /\ view'.pc = "done") =>
          view'.top_bids = TopOf(ObjectId(view.arg), TopLimit)]_vars

\* C13: every step of every handler leaves the bid collection as it was or
\* appends one record to it, and a record is appended only by a place_bid
\* request whose auction exists, whose `now` is inside the auction's window
\* and whose amount exceeds the current price it read.
C13_BidsAppendOnly ==
    [][\/ bid' = bid
       \/ /\ Len(bid') = Len(bid) + 1
          /\ SubSeq(bid', 1, Len(bid)) = bid
          /\ \E r \in Requests :
                LET new == bid'[Len(bid')]
                    a == FindOne(ObjectId(new.auction_id))
                IN /\ req[r].pc = "insert" /\ req'[r].pc = "update"
                   /\ new.auction_id = req[r].auction_id
                   /\ new.amount = req[r].amount
                   /\ new.id = req'[r].inserted_id
                   /\ a # NoDoc
                   /\ a.start_time <= new.created_at
                   /\ new.created_at <= a.end_time
                   /\ new.amount > req[r].auction.current_price]_vars

\* C13 witness: two bids are recorded, one request was rejected or is still
\* running, and get_auction has answered with a recorded bid.
C13_Witness ==
    /\ Len(bid) = 2
    /\ bid[1].id = 1 /\ bid[2].id = 2
    /\ view.op = "get" /\ view.pc = "done" /\ view.code = 200
    /\ view.top_bids # <<>>

\* C14: when the auction document a request read has no current price (the
\* key is missing or its value is None) and the request's `now` is inside the
\* window, an amount above starting_price passes the amount check and any
\* other amount is rejected with InvalidBid; there is no other outcome.
C14_UnsetPriceUsesStartingPrice ==
    [][\A r \in Requests :
          (LeavesCheck(r)
             /\ req[r].auction.current_price \in {Unset, Absent}
             /\ req[r].auction.start_time <= clock
             /\ clock <= req[r].auction.end_time) =>
              IF req[r].amount > req[r].auction.starting_price
              THEN req'[r].pc = "insert"
              ELSE InvalidBid(req'[r])]_vars

\* C15: in every item of a list_auctions response is_live and has_ended are
\* taken at the item's one `now`: they are never both true, and both are
\* false exactly when now < start_time (when end_time < start_time: exactly
\* when now <= end_time).
C15_FlagsFromOneNow ==
    (view.op = "list") =>
        \A k \in 1..Len(view.items) :
            LET it == view.items[k]
                a == it.doc
            IN /\ ~(it.is_live /\ it.has_ended)
               /\ it.is_live <=> (a.start_time <= it.now /\ it.now <= a.end_time)
               /\ it.has_ended <=> (it.now > a.end_time)
               /\ (~it.is_live /\ ~it.has_ended) <=>
                      IF a.end_time < a.start_time
                      THEN it.now <= a.end_time
                      ELSE it.now < a.start_time

\* C15 witness: a list holds an item read at the end of its window (live, not
\* ended) or an item with an inverted window and both flags false.
C15_Witness ==
    /\ view.op = "list" /\ view.pc = "done"
    /\ \E k \in 1..Len(view.items) :
          \/ /\ view.items[k].now = view.items[k].doc.end_time
             /\ view.items[k].is_live /\ ~view.items[k].has_ended
             /\ view.items[k].doc.start_time < view.items[k].doc.end_time
             /\ view.items[k].doc.status = "scheduled"
          \/ /\ view.items[k].doc.end_time < view.items[k].doc.start_time
             /\ ~view.items[k].is_live /\ ~view.items[k].has_ended

Rejected(q) == q.pc = "done" /\ q.code \in {400, 404}

\* C16: the step that rejects a place_bid request (NotFound, InvalidState or
\* InvalidBid) changes neither collection and the request has inserted no
\* bid; an absent auction is reported as NotFound, and a `now` outside the
\* window as InvalidState whatever the amount, also an amount that is too low.
C16_RejectionLeavesStore ==
    [][\A r \in Requests :
          /\ (req[r].pc # "done" /\ Rejected(req'[r])) =>
                 /\ auction' = auction /\ bid' = bid
                 /\ req'[r].inserted_id = 0
                 /\ \A k \in 1..Len(bid') : bid'[k].id # req'[r].inserted_id
          /\ (req[r].pc = "idle" /\ req'[r].pc # "idle"
                /\ IsValidObjectId(req'[r].auction_id)
                /\ ObjectId(req'[r].auction_id) \notin 1..Len(auction)) =>
                 (req'[r].pc = "done" /\ req'[r].code = 404)
          /\ (LeavesCheck(r)
                /\ ~(req[r].auction.start_time <= clock
                       /\ clock <= req[r].auction.end_time)) =>
                 InvalidState(req'[r])]_vars

\* C16 witness: a bid not above the current price was rejected as not live on
\* an auction whose window is not inverted, while a bid is recorded.
C16_Witness ==
    \E r \in Requests :
        /\ InvalidState(req[r])
        /\ Stored(r) # NoDoc
        /\ Stored(r).start_time <= Stored(r).end_time
        /\ req[r].amount <= Stored(r).starting_price
        /\ Len(bid) = 1

\* C17: the stored current_price of every auction made by create_auction is
\* at least its starting_price, equals it until a bid is accepted, and every
\* bid recorded for the auction is strictly above the starting_price.
C17_PriceAtLeastStart ==
    \A i \in 1..Len(auction) :
        /\ auction[i].current_price >= auction[i].starting_price
        /\ auction[i].updated_at = Unset =>
               auction[i].current_price = auction[i].starting_price
        /\ \A k \in BidsOf(i) : bid[k].amount > auction[i].starting_price

\* C17 witness: an auction with a positive starting price holds two bids of
\* overlapping requests and a current price above the starting price.
C17_Witness ==
    \E i \in 1..Len(auction) :
        /\ auction[i].starting_price = 1
        /\ Cardinality(BidsOf(i)) = 2
        /\ auction[i].current_price > auction[i].starting_price
        /\ \E r \in Requests : InFlight(r)

\* C18: a stored current_price that differs from the starting_price is the
\* amount of a bid recorded for the auction, and when no place_bid request is
\* running the stored current_price is not below any bid recorded for it.
C18_PriceBacksHighestBid ==
    \A i \in 1..Len(auction) :
        /\ auction[i].current_price # auction[i].starting_price =>
               \E k \in BidsOf(i) : bid[k].amount = auction[i].current_price
        /\ (\A r \in Requests : ~InFlight(r)) =>
               \A k \in BidsOf(i) : auction[i].current_price >= bid[k].amount

\* The timestamps the bidding protocol wrote lie inside the window.
StampsInside(bids, auctions) ==
    /\ \A k \in 1..Len(bids) :
          LET i == ObjectId(bids[k].auction_id)
          IN /\ auctions[i].start_time <= bids[k].created_at
             /\ bids[k].created_at <= auctions[i].end_time
    /\ \A i \in 1..Len(auctions) :
          auctions[i].updated_at # Unset =>
              /\ auctions[i].start_time <= auctions[i].updated_at
              /\ auctions[i].updated_at <= auctions[i].end_time

\* C19 as stated: every created_at and updated_at lies inside the auction's
\* window, and the stored current_price never changes in a step taken when
\* the clock is past end_time.
C19_NoChangePastEnd ==
    [][/\ StampsInside(bid', auction')
       /\ \A i \in 1..Len(auction) :
             auction'[i].current_price # auction[i].current_price =>
                 clock <= auction[i].end_time]_vars

\* C19 amended: every created_at and updated_at lies inside the auction's
\* window, and the stored current_price changes only by the write of a
\* request whose `now` snapshot is inside the window (the clock itself may be
\* past end_time by then); the write stamps updated_at with that snapshot.
C19_StampsInsideWindow ==
    [][/\ StampsInside(bid', auction')
       /\ \A i \in 1..Len(auction) :
             auction'[i].current_price # auction[i].current_price =>
                 \E r \in Requests :
                     /\ WritesPrice(r) /\ OnAuction(r, i)
                     /\ auction[i].start_time <= req[r].now
                     /\ req[r].now <= auction[i].end_time
                     /\ auction'[i].updated_at = req[r].now]_vars

\* C19 witness: the clock is past end_time, the auction already carries an
\* updated_at, and a request that passed the live check has its bid recorded
\* and its price write still to come.
C19_Witness ==
    \E i \in 1..Len(auction), r \in Requests :
        /\ clock > auction[i].end_time
        /\ auction[i].updated_at # Unset
        /\ OnAuction(r, i) /\ req[r].pc = "update"
        /\ bid[req[r].inserted_id].created_at <= auction[i].end_time
        /\ req[r].amount # auction[i].current_price

====
